---- MODULE Spec2Model ----
(***************************************************************************)
(* Sector access engine of utils/nfc-mfra.c: main's sector loop,           *)
(* read_sector, write_sector, authenticate and unlock_card, driven against *)
(* a MIFARE Classic tag and an NFC reader that may reject any command.     *)
(* Every call that reaches the tag or the reader is one step and is        *)
(* appended to `log`, the trace of the sector operation in progress; what  *)
(* the properties need of the earlier operations of the run is kept in the *)
(* history variables (hWrote, hPending, hBccAbort, hOpFailed, hRead) and   *)
(* in hDump and hKeys, the CardImage and the KeyStore as they were when    *)
(* the operation in progress was called.                                   *)
(*                                                                         *)
(* Spec and SpecCall start where main enters the sector loop. SpecRun is   *)
(* the whole of main: the key file probe, the reader, the selection of the *)
(* tag, the card size, the load of the key file and of the dump file, and  *)
(* then the sector loop. SpecLayout applies the three SectorLayout         *)
(* functions to every block index.                                         *)
(***************************************************************************)
EXTENDS Integers, Sequences, FiniteSets, TLC

\* ---------------------------------------------------------------- bounds
MaxSector == 1      \* sector ids handed to -s are drawn from 0..MaxSector
MaxSel == 2         \* at most this many -s options in one run
MaxTagKey == 1      \* the tag's key is dictionary entry 1..MaxTagKey, the last entry, or no entry
MaxBlock == 255     \* block indices handed to the SectorLayout functions are 0..MaxBlock

\* ------------------------------------------------------- program constants
SECTOR_SIZE == 4

keys ==
  << <<255, 255, 255, 255, 255, 255>>,
     <<211, 247, 211, 247, 211, 247>>,
     <<160, 161, 162, 163, 164, 165>>,
     <<176, 177, 178, 179, 180, 181>>,
     << 77,  58, 153, 195,  81, 221>>,
     << 26, 152,  44, 126,  69, 154>>,
     <<170, 187, 204, 221, 238, 255>>,
     <<  0,   0,   0,   0,   0,   0>>,
     <<171, 205, 239,  18,  52,  86>> >>

num_keys == Len(keys)

\* ------------------------------------------------------------ byte helpers
RECURSIVE XorBits(_, _, _)
XorBits(a, b, n) ==
  IF n = 0 THEN 0
  ELSE (((a % 2) + (b % 2)) % 2) + 2 * XorBits(a \div 2, b \div 2, n - 1)

\* the C operator ^ on two uint8_t
Xor(a, b) == XorBits(a, b, 8)

Zero16 == [j \in 1..16 |-> 0]

\* mifare_classic_block is a union: the trailer view (mbt) of the 16 data bytes (mbd)
abtKeyA(blk) == SubSeq(blk, 1, 6)
abtAccessBits(blk) == SubSeq(blk, 7, 10)
abtKeyB(blk) == SubSeq(blk, 11, 16)

\* ---------------------------------------------------------- SectorLayout
is_first_block(uiBlock) ==
  IF uiBlock < 128 THEN uiBlock % 4 = 0 ELSE uiBlock % 16 = 0

is_trailer_block(uiBlock) ==
  IF uiBlock < 128 THEN (uiBlock + 1) % 4 = 0 ELSE (uiBlock + 1) % 16 = 0

\* mutant of get_trailer_block: every sector is taken to have four blocks
get_trailer_block_small(uiFirstBlock) == uiFirstBlock + (3 - (uiFirstBlock % 4))

get_trailer_block(uiFirstBlock) ==
  IF uiFirstBlock < 128
    THEN uiFirstBlock + (3 - (uiFirstBlock % 4))
    ELSE uiFirstBlock + (15 - (uiFirstBlock % 16))

\* iTrailerBlock and iFirstDataBlock of read_sector / write_sector
TrailerBlockOf(iSector) == ((iSector + 1) * 4) - 1
FirstDataBlockOf(iSector) == TrailerBlockOf(iSector) - SECTOR_SIZE + 1

\* ------------------------------------------------------------ environment
SectorIds == 0..MaxSector
Blocks == 0..TrailerBlockOf(MaxSector)

\* a key that is not in the dictionary
NonDictKey == <<1, 2, 3, 4, 5, 6>>

\* the key the tag holds; with -u no key is ever presented, so one tag stands for all
TagKeyChoices(u) ==
  IF u THEN {keys[1]}
  ELSE {keys[k] : k \in (1..MaxTagKey) \cup {num_keys}} \cup {NonDictKey}

\* the key the key file holds: one the tag may hold, or one it cannot
FileKeyChoices(u) == IF u THEN {keys[1]} ELSE {keys[1], NonDictKey}

\* the CardImage main starts with: 0 for the memset of a plain read, else byte 4
\* of block 0 of the dump file loaded (-p, or a write): 116 (04^12^34^56 = 74 hex)
\* is the right BCC, 97 is not
DumpChoices(action) == IF action = "ACTION_READ" THEN {0, 116} ELSE {116, 97}

DefaultAccess == <<255, 7, 128, 105>>

\* what the tag holds before the run: block 0 is UID 04 12 34 56 with its BCC 74
TagBlock(b, k) ==
  IF is_trailer_block(b) THEN k \o DefaultAccess \o k
  ELSE IF b = 0 THEN <<4, 18, 52, 86, 116>> \o [j \in 1..11 |-> 0]
  ELSE [j \in 1..16 |-> (16 * b + j) % 256]

\* what the dump file holds before the run; bcc is byte 4 of block 0
DumpFileBlock(b, bcc) ==
  IF is_trailer_block(b) THEN keys[2] \o <<120, 119, 136, 0>> \o keys[1]
  ELSE IF b = 0 THEN <<4, 18, 52, 86, bcc>> \o [j \in 1..11 |-> 1]
  ELSE [j \in 1..16 |-> (7 * b + j + 100) % 256]

\* what the key file holds before the run: key k as key A and key B of every trailer
KeyFileBlock(b, k) ==
  IF is_trailer_block(b) THEN k \o DefaultAccess \o k
  ELSE IF b = 0 THEN <<4, 18, 52, 86, 116>> \o [j \in 1..11 |-> 0]
  ELSE Zero16

VARIABLES
  atAction,           \* ACTION_READ or ACTION_WRITE
  unlock,             \* -u
  bUseKeyA,           \* -a / -b
  bUseKeyFile,        \* a key file was given
  bTolerateFailures,
  magic2,
  ilSector,           \* the number of -s options
  lSector,            \* the sector ids given with -s (any of them at any position)
  uiBlocks,           \* the last block index of the card, as guessed from the tag
  keyFileLen,         \* the size of the key file in bytes, -1 when it cannot be opened
  iSector,            \* lSector[i], read when the loop reaches it
  mtKeys,             \* KeyStore
  mtDump,             \* CardImage
  tagMem,             \* the tag's blocks
  handleCrc,          \* NP_HANDLE_CRC of the reader
  easyFraming,        \* NP_EASY_FRAMING of the reader
  log,                \* the calls of the current sector operation, in order
  hWrote,             \* history: a write command has been issued in this run
  hPending,           \* history: a read or write failed and no re-select followed
  hBccAbort,          \* history: write_sector has refused a block 0 image
  hDump,              \* history: the CardImage when the sector operation was called
  hKeys,              \* history: the KeyStore when the sector operation was called
  hOpFailed,          \* history: a sector operation of this run has returned false
  hRead,              \* history: the blocks that the read commands of the calls that
                      \* have returned obtained
  layBlock,           \* SectorLayout: the block index the functions are applied to
  layOut,             \* SectorLayout: what the three functions returned for it
  pc,                 \* position in the program
  i,                  \* main's loop index (1-based)
  iBlock,             \* read_sector / write_sector: the block of this iteration
  bFailure,
  uiReadBlocks,
  uiWriteBlocks,
  key_index,          \* authenticate: 0-based index into keys
  ret,                \* the value the sector operation returned
  dumpFile,           \* the dump file as last written, "none" before
  exitCode            \* -1 while running

cfgVars == <<atAction, unlock, bUseKeyA, bUseKeyFile, bTolerateFailures, magic2, ilSector,
             lSector, uiBlocks, keyFileLen>>
histVars == <<hWrote, hPending, hBccAbort>>
snapVars == <<hDump, hKeys>>
layVars == <<layBlock, layOut>>
devVars == <<handleCrc, easyFraming>>
locVars == <<iBlock, bFailure, uiReadBlocks, uiWriteBlocks, key_index>>
vars == <<cfgVars, mtKeys, mtDump, tagMem, devVars, log, histVars, snapVars,
          hOpFailed, hRead, layVars, pc, i, iSector, locVars, ret, dumpFile, exitCode>>

\* ----------------------------------------------------------------- trace
\* op: the call; arg: its block, sector, first frame byte or property value;
\* par: the key of an authentication, the size of a frame; ok: its outcome
Ev(op, arg, par, ok) == [op |-> op, arg |-> arg, par |-> par, ok |-> ok]
NoKey == <<>>

\* any command may fail for a reason of its own (link error, tag removed)
FaultChoices == BOOLEAN

\* the key of the type in use that the tag holds for the sector of block b
TagKey(b) ==
  IF bUseKeyA THEN abtKeyA(tagMem[get_trailer_block(b)])
  ELSE abtKeyB(tagMem[get_trailer_block(b)])

\* layOut before the functions have been applied
NoLayout == [first |-> FALSE, trailer |-> FALSE, trailer_block |-> 0]

\* ------------------------------------------------------------------ Init
\* The state main has built when it enters the sector loop: options parsed,
\* tag selected, key file and dump file loaded.
InitWith(tolerate) ==
  /\ atAction \in {"ACTION_READ", "ACTION_WRITE"}
  /\ unlock \in BOOLEAN
  /\ bUseKeyA \in BOOLEAN
  /\ bUseKeyFile \in BOOLEAN
  /\ bTolerateFailures \in tolerate
  /\ magic2 \in BOOLEAN
  /\ ilSector \in 1..MaxSel
  /\ lSector = SectorIds
  /\ uiBlocks = 63
  /\ keyFileLen = IF bUseKeyFile THEN (uiBlocks + 1) * 16 ELSE 0
  /\ iSector = 0
  /\ \E fk \in FileKeyChoices(unlock) :
       mtKeys = [b \in Blocks |->
                   IF bUseKeyFile THEN KeyFileBlock(b, fk) ELSE Zero16]
  /\ \E bcc \in DumpChoices(atAction) :
       mtDump = [b \in Blocks |->
                   IF bcc = 0 THEN Zero16 ELSE DumpFileBlock(b, bcc)]
  /\ \E tk \in TagKeyChoices(unlock) : tagMem = [b \in Blocks |-> TagBlock(b, tk)]
  /\ handleCrc = TRUE
  /\ easyFraming = FALSE
  /\ log = <<>>
  /\ hWrote = FALSE
  /\ hPending = FALSE
  /\ hBccAbort = FALSE
  /\ hDump = mtDump
  /\ hKeys = mtKeys
  /\ hOpFailed = FALSE
  /\ hRead = {}
  /\ layBlock = 0
  /\ layOut = NoLayout
  /\ pc = "main"
  /\ i = 1
  /\ iBlock = 0
  /\ bFailure = FALSE
  /\ uiReadBlocks = 0
  /\ uiWriteBlocks = 0
  /\ key_index = 0
  /\ ret = FALSE
  /\ dumpFile = "none"
  /\ exitCode = -1

\* -r and -w both set bTolerateFailures
Init == InitWith({TRUE})

\* read_sector and write_sector under either value of the flag they consult
InitCall == InitWith(BOOLEAN)

\* ------------------------------------------------- control-flow helpers
\* the sector operation returns val after issuing evs
Returns(val, evs) ==
  /\ log' = log \o evs \o <<Ev("return", iSector, NoKey, val)>>
  /\ ret' = val
  /\ pc' = "main_ret"
  /\ iBlock' = 0
  /\ bFailure' = FALSE
  /\ key_index' = 0

\* the sector operation goes on at nextpc after issuing evs
Goes(nextpc, evs) ==
  /\ log' = log \o evs
  /\ pc' = nextpc
  /\ UNCHANGED ret

GoesKeep(nextpc, evs) ==
  /\ Goes(nextpc, evs)
  /\ UNCHANGED <<iBlock, bFailure, key_index>>

\* ------------------------------------------------------------------ main
\* whether a failed read or write of the trace, or of an earlier one, is still
\* not followed by a successful re-select
RECURSIVE PendingAfter(_, _)
PendingAfter(evs, pending) ==
  IF evs = <<>> THEN pending
  ELSE LET e == Head(evs) IN
    PendingAfter(Tail(evs),
                 IF e.op \in {"MC_READ", "MC_WRITE"} /\ ~e.ok THEN TRUE
                 ELSE IF e.op = "select" /\ e.ok THEN FALSE
                 ELSE pending)

\* the blocks that the read commands of a trace obtained
ReadBlocks(evs) ==
  {evs[j].arg : j \in {k \in 1..Len(evs) : evs[k].op = "MC_READ" /\ evs[k].ok}}

\* for (i < ilSector): call read_sector or write_sector with the next sector
\* of the command line; their locals are initialised
MainCall ==
  /\ pc = "main"
  /\ i <= ilSector
  /\ \E s \in lSector :
       /\ iSector' = s
       /\ log' = <<Ev(IF atAction = "ACTION_READ" THEN "read_sector"
                      ELSE "write_sector", s, NoKey, TRUE)>>
       /\ iBlock' = IF atAction = "ACTION_READ" THEN TrailerBlockOf(s)
                    ELSE FirstDataBlockOf(s)
  /\ bFailure' = FALSE
  /\ uiReadBlocks' = 0
  /\ uiWriteBlocks' = 0
  /\ key_index' = 0
  /\ pc' = IF unlock THEN "unlock_card"
           ELSE IF atAction = "ACTION_READ" THEN "rs_iter" ELSE "ws_iter"
  /\ hDump' = mtDump
  /\ hKeys' = mtKeys
  /\ UNCHANGED <<cfgVars, layVars, hRead, hOpFailed, mtKeys, mtDump, tagMem, devVars, i, ret,
                 dumpFile, exitCode, histVars>>

\* read_sector returned: on success the dump file is rewritten (or the run exits
\* with EXIT_FAILURE when it cannot be), on failure main goes on to the next
\* sector. The frame of the finished call is dropped.
MainAfterRead ==
  /\ pc = "main_ret"
  /\ atAction = "ACTION_READ"
  /\ \E ioOk \in BOOLEAN :
       IF ret /\ ~ioOk
         THEN /\ exitCode' = 1
              /\ pc' = "exit"
              /\ UNCHANGED <<i, dumpFile>>
         ELSE /\ dumpFile' = IF ret THEN mtDump ELSE dumpFile
              /\ i' = i + 1
              /\ pc' = "main"
              /\ UNCHANGED exitCode
  /\ hPending' = PendingAfter(log, hPending)
  /\ log' = <<>>
  /\ ret' = FALSE
  /\ iSector' = 0
  /\ uiReadBlocks' = 0
  /\ hOpFailed' = (hOpFailed \/ ~ret)
  /\ hDump' = mtDump
  /\ hKeys' = mtKeys
  /\ hRead' = hRead \cup ReadBlocks(log)
  /\ UNCHANGED <<cfgVars, layVars, mtKeys, mtDump, tagMem, devVars, hWrote, hBccAbort,
                 iBlock, bFailure, uiWriteBlocks, key_index>>

\* write_sector returned: its value is discarded
MainAfterWrite ==
  /\ pc = "main_ret"
  /\ atAction = "ACTION_WRITE"
  /\ i' = i + 1
  /\ pc' = "main"
  /\ hPending' = PendingAfter(log, hPending)
  /\ log' = <<>>
  /\ ret' = FALSE
  /\ iSector' = 0
  /\ uiWriteBlocks' = 0
  /\ hOpFailed' = (hOpFailed \/ ~ret)
  /\ hDump' = mtDump
  /\ hKeys' = mtKeys
  /\ UNCHANGED <<cfgVars, layVars, hRead, mtKeys, mtDump, tagMem, devVars, hWrote, hBccAbort,
                 iBlock, bFailure, uiReadBlocks, key_index, dumpFile, exitCode>>

\* after the loop: exit(EXIT_SUCCESS)
MainExit ==
  /\ pc = "main"
  /\ i > ilSector
  /\ exitCode' = 0
  /\ pc' = "exit"
  /\ UNCHANGED <<cfgVars, layVars, hRead, snapVars, hOpFailed, mtKeys, mtDump, tagMem, devVars, log, histVars, i,
                 iSector, locVars, ret, dumpFile>>

\* ----------------------------------------------------------- unlock_card
\* mutant of SetProperty: the result is not tested
SetPropertyUnchecked(prop, val, f, nextpc) ==
  GoesKeep(nextpc, <<Ev(prop, val, NoKey, ~f)>>)

\* a call of nfc_device_set_property_bool inside unlock_card: on failure
\* unlock_card returns false, and so does the sector operation that called it
SetProperty(prop, val, f, nextpc) ==
  IF f THEN Returns(FALSE, <<Ev(prop, val, NoKey, FALSE)>>)
       ELSE GoesKeep(nextpc, <<Ev(prop, val, NoKey, TRUE)>>)

\* mutant of Transmit: the result is not tested
TransmitUnchecked(op, byte, size, f, nextpc) ==
  GoesKeep(nextpc, <<Ev(op, byte, <<size>>, ~f)>>)

\* a transmit_bits / transmit_bytes whose result unlock_card tests
Transmit(op, byte, size, f, nextpc) ==
  IF f THEN Returns(FALSE, <<Ev(op, byte, <<size>>, FALSE)>>)
       ELSE GoesKeep(nextpc, <<Ev(op, byte, <<size>>, TRUE)>>)

\* mutant of TransmitHalt: no HALT frame is sent
TransmitHaltSkipped(f, nextpc) == GoesKeep(nextpc, <<>>)

\* transmit_bytes(abtHalt, 4): the result is not tested
TransmitHalt(f, nextpc) ==
  GoesKeep(nextpc, <<Ev("transmit_bytes", 80, <<4>>, ~f)>>)

AfterUnlock == IF atAction = "ACTION_READ" THEN "rs_iter" ELSE "ws_iter"

\* mutant of UnlockEntry: magic2 is not looked at
UnlockEntryNoMagic ==
  /\ pc = "unlock_card"
  /\ GoesKeep("ul_crc_off", <<>>)
  /\ UNCHANGED <<cfgVars, layVars, hRead, snapVars, hOpFailed, mtKeys, mtDump, tagMem, devVars, i, iSector,
                 histVars, uiReadBlocks, uiWriteBlocks, dumpFile, exitCode>>

\* if (magic2) return false; otherwise the sequence starts
UnlockEntry ==
  /\ pc = "unlock_card"
  /\ IF magic2 THEN Returns(FALSE, <<>>) ELSE GoesKeep("ul_crc_off", <<>>)
  /\ UNCHANGED <<cfgVars, layVars, hRead, snapVars, hOpFailed, mtKeys, mtDump, tagMem, devVars, i, iSector,
                 histVars, uiReadBlocks, uiWriteBlocks, dumpFile, exitCode>>

UnlockCrcOff ==
  /\ pc = "ul_crc_off"
  /\ \E f \in FaultChoices :
       /\ handleCrc' = IF f THEN handleCrc ELSE FALSE
       /\ SetProperty("NP_HANDLE_CRC", 0, f, "ul_framing_off")
  /\ UNCHANGED <<cfgVars, layVars, hRead, snapVars, hOpFailed, mtKeys, mtDump, tagMem, easyFraming, i, iSector,
                 histVars, uiReadBlocks, uiWriteBlocks, dumpFile, exitCode>>

UnlockFramingOff ==
  /\ pc = "ul_framing_off"
  /\ \E f \in FaultChoices :
       /\ easyFraming' = IF f THEN easyFraming ELSE FALSE
       /\ SetProperty("NP_EASY_FRAMING", 0, f, "ul_halt")
  /\ UNCHANGED <<cfgVars, layVars, hRead, snapVars, hOpFailed, mtKeys, mtDump, tagMem, handleCrc, i, iSector,
                 histVars, uiReadBlocks, uiWriteBlocks, dumpFile, exitCode>>

UnlockHalt ==
  /\ pc = "ul_halt"
  /\ \E f \in FaultChoices :
       /\ TransmitHalt(f, "ul_unlock1")
  /\ UNCHANGED <<cfgVars, layVars, hRead, snapVars, hOpFailed, mtKeys, mtDump, tagMem, devVars, i, iSector,
                 histVars, uiReadBlocks, uiWriteBlocks, dumpFile, exitCode>>

UnlockBits ==
  /\ pc = "ul_unlock1"
  /\ \E f \in FaultChoices :
       /\ Transmit("transmit_bits", 64, 7, f, "ul_unlock2")
  /\ UNCHANGED <<cfgVars, layVars, hRead, snapVars, hOpFailed, mtKeys, mtDump, tagMem, devVars, i, iSector,
                 histVars, uiReadBlocks, uiWriteBlocks, dumpFile, exitCode>>

UnlockBytes ==
  /\ pc = "ul_unlock2"
  /\ \E f \in FaultChoices :
       /\ Transmit("transmit_bytes", 67, 1, f, "ul_crc_on")
  /\ UNCHANGED <<cfgVars, layVars, hRead, snapVars, hOpFailed, mtKeys, mtDump, tagMem, devVars, i, iSector,
                 histVars, uiReadBlocks, uiWriteBlocks, dumpFile, exitCode>>

UnlockCrcOn ==
  /\ pc = "ul_crc_on"
  /\ \E f \in FaultChoices :
       /\ handleCrc' = IF f THEN handleCrc ELSE TRUE
       /\ SetProperty("NP_HANDLE_CRC", 1, f, "ul_framing_on")
  /\ UNCHANGED <<cfgVars, layVars, hRead, snapVars, hOpFailed, mtKeys, mtDump, tagMem, easyFraming, i, iSector,
                 histVars, uiReadBlocks, uiWriteBlocks, dumpFile, exitCode>>

\* the last step: on success unlock_card returns true and the caller goes on
UnlockFramingOn ==
  /\ pc = "ul_framing_on"
  /\ \E f \in FaultChoices :
       /\ easyFraming' = IF f THEN easyFraming ELSE TRUE
       /\ SetProperty("NP_EASY_FRAMING", 1, f, AfterUnlock)
  /\ UNCHANGED <<cfgVars, layVars, hRead, snapVars, hOpFailed, mtKeys, mtDump, tagMem, handleCrc, i, iSector,
                 histVars, uiReadBlocks, uiWriteBlocks, dumpFile, exitCode>>

\* ---------------------------------------------------------- authenticate
mc == IF bUseKeyA THEN "MC_AUTH_A" ELSE "MC_AUTH_B"

AfterAuth == IF atAction = "ACTION_READ" THEN "rs_read" ELSE "ws_block"

\* mutant of GuessKey: the dictionary is walked from its end
GuessKeyReversed(k) == keys[num_keys - k]

\* the candidate of loop index key_index: keys + key_index * 6
GuessKey(k) == keys[k + 1]

\* mutant of FileKey: the key is taken at uiBlock, not at its trailer
FileKeyAtBlock(uiBlock) ==
  IF bUseKeyA THEN abtKeyA(mtKeys[uiBlock]) ELSE abtKeyB(mtKeys[uiBlock])

\* the key-file key authenticate uses for uiBlock
FileKey(uiBlock) ==
  IF bUseKeyA THEN abtKeyA(mtKeys[get_trailer_block(uiBlock)])
  ELSE abtKeyB(mtKeys[get_trailer_block(uiBlock)])

\* mutant of RememberKey: the accepted key is copied under the other key type
RememberKeyOtherType(uiBlock, key) ==
  [mtKeys EXCEPT ![uiBlock] =
     IF bUseKeyA THEN SubSeq(@, 1, 10) \o key ELSE key \o SubSeq(@, 7, 16)]

\* mtKeys after the accepted key has been copied into the entry of uiBlock
RememberKey(uiBlock, key) ==
  [mtKeys EXCEPT ![uiBlock] =
     IF bUseKeyA THEN key \o SubSeq(@, 7, 16) ELSE SubSeq(@, 1, 10) \o key]

\* the tag rejects a wrong key; a right key is accepted unless the link fails
AuthFaults(key) == IF key = TagKey(iBlock) THEN FaultChoices ELSE {FALSE}

\* key-file mode: one attempt with the stored key
AuthKeyFile ==
  /\ pc = "auth"
  /\ bUseKeyFile
  /\ LET key == FileKey(iBlock) IN
       /\ \E f \in AuthFaults(key) :
            LET ok == key = TagKey(iBlock) /\ ~f IN
              /\ IF ok THEN GoesKeep(AfterAuth, <<Ev(mc, iBlock, key, TRUE)>>)
                       ELSE Returns(FALSE, <<Ev(mc, iBlock, key, FALSE)>>)
  /\ UNCHANGED <<cfgVars, layVars, hRead, snapVars, hOpFailed, mtKeys, mtDump, tagMem, devVars, i, iSector,
                 histVars, uiReadBlocks, uiWriteBlocks, dumpFile, exitCode>>

\* guessing mode: one attempt with the next dictionary key
AuthGuess ==
  /\ pc = "auth"
  /\ ~bUseKeyFile
  /\ key_index < num_keys
  /\ LET key == GuessKey(key_index) IN
       /\ \E f \in AuthFaults(key) :
            LET ok == key = TagKey(iBlock) /\ ~f IN
              /\ IF ok
                   THEN /\ mtKeys' = RememberKey(iBlock, key)
                        /\ Goes(AfterAuth, <<Ev(mc, iBlock, key, TRUE)>>)
                        /\ key_index' = 0
                        /\ UNCHANGED <<iBlock, bFailure>>
                   ELSE /\ GoesKeep("auth_select", <<Ev(mc, iBlock, key, FALSE)>>)
                        /\ UNCHANGED mtKeys
  /\ UNCHANGED <<cfgVars, layVars, hRead, snapVars, hOpFailed, mtDump, tagMem, devVars, i, iSector,
                 histVars, uiReadBlocks, uiWriteBlocks, dumpFile, exitCode>>

\* mutant of AuthReselect: the loop is left one candidate early
AuthReselectShort ==
  /\ pc = "auth_select"
  /\ IF key_index + 2 < num_keys
       THEN /\ Goes("auth", <<Ev("select", 1, NoKey, TRUE)>>)
            /\ key_index' = key_index + 1
            /\ UNCHANGED <<iBlock, bFailure>>
       ELSE Returns(FALSE, <<Ev("select", 1, NoKey, TRUE)>>)
  /\ UNCHANGED <<cfgVars, layVars, hRead, snapVars, hOpFailed, mtKeys, mtDump, tagMem,
                 devVars, i, iSector, histVars, uiReadBlocks, uiWriteBlocks,
                 dumpFile, exitCode>>

\* after a rejected candidate: re-select the tag by UID, key_index++, and leave
\* the loop when the dictionary is exhausted. The result of the re-select is
\* discarded, so the step records the call and no outcome.
AuthReselect ==
  /\ pc = "auth_select"
  /\ IF key_index + 1 < num_keys
       THEN /\ Goes("auth", <<Ev("select", 1, NoKey, TRUE)>>)
            /\ key_index' = key_index + 1
            /\ UNCHANGED <<iBlock, bFailure>>
       ELSE Returns(FALSE, <<Ev("select", 1, NoKey, TRUE)>>)
  /\ UNCHANGED <<cfgVars, layVars, hRead, snapVars, hOpFailed, mtKeys, mtDump, tagMem, devVars, i, iSector,
                 histVars, uiReadBlocks, uiWriteBlocks, dumpFile, exitCode>>

\* ----------------------------------------------------------- read_sector
\* mutant of RsTail: the loop stops one block early (iBlock > iFirstDataBlock)
RsTailShort(bF, evs) ==
  /\ uiReadBlocks' = IF bF THEN uiReadBlocks ELSE uiReadBlocks + 1
  /\ IF ~bTolerateFailures /\ bF
       THEN Returns(FALSE, evs)
       ELSE IF iBlock - 1 > FirstDataBlockOf(iSector)
         THEN /\ Goes("rs_iter", evs)
              /\ iBlock' = iBlock - 1
              /\ bFailure' = bF
              /\ UNCHANGED key_index
         ELSE Returns(TRUE, evs)

\* mutant of RsTail: a failure is tolerated whatever bTolerateFailures says
RsTailTolerant(bF, evs) ==
  /\ uiReadBlocks' = IF bF THEN uiReadBlocks ELSE uiReadBlocks + 1
  /\ IF iBlock - 1 >= FirstDataBlockOf(iSector)
       THEN /\ Goes("rs_iter", evs)
            /\ iBlock' = iBlock - 1
            /\ bFailure' = bF
            /\ UNCHANGED key_index
       ELSE Returns(TRUE, evs)

\* the end of one iteration: print_success_or_failure, the tolerance test, iBlock--
RsTail(bF, evs) ==
  /\ uiReadBlocks' = IF bF THEN uiReadBlocks ELSE uiReadBlocks + 1
  /\ IF ~bTolerateFailures /\ bF
       THEN Returns(FALSE, evs)
       ELSE IF iBlock - 1 >= FirstDataBlockOf(iSector)
         THEN /\ Goes("rs_iter", evs)
              /\ iBlock' = iBlock - 1
              /\ bFailure' = bF
              /\ UNCHANGED key_index
         ELSE Returns(TRUE, evs)

\* mutant of StoreRead: what was read is stored at the block before iBlock,
\* from the trailer down to the first block of the sector
StoreReadBelow(data) ==
  IF iBlock > FirstDataBlockOf(iSector)
    THEN [mtDump EXCEPT ![iBlock - 1] = data]
    ELSE [mtDump EXCEPT ![iBlock] = data]

\* mutant of StoreRead: key B of a trailer is taken from the key A the
\* CardImage held before
StoreReadShifted(data) ==
  IF is_trailer_block(iBlock) /\ ~unlock
    THEN [mtDump EXCEPT ![iBlock] =
            abtKeyA(mtKeys[iBlock]) \o SubSeq(data, 7, 10) \o abtKeyA(@)]
    ELSE [mtDump EXCEPT ![iBlock] = data]

\* mtDump after block iBlock has been read as data
StoreRead(data) ==
  IF is_trailer_block(iBlock) /\ ~unlock
    THEN [mtDump EXCEPT ![iBlock] =
            abtKeyA(mtKeys[iBlock]) \o SubSeq(data, 7, 10) \o abtKeyB(mtKeys[iBlock])]
    ELSE [mtDump EXCEPT ![iBlock] = data]

\* the head of one iteration, up to the call of authenticate or the read
RsIter ==
  /\ pc = "rs_iter"
  /\ IF is_trailer_block(iBlock)
       THEN \E f \in (IF bFailure THEN FaultChoices ELSE {FALSE}) :
              LET sel == IF bFailure THEN <<Ev("select", 0, NoKey, ~f)>> ELSE <<>> IN
                /\ UNCHANGED uiReadBlocks
                /\ IF f THEN Returns(FALSE, sel)
                   ELSE /\ bFailure' = FALSE
                        /\ UNCHANGED <<iBlock, key_index>>
                        /\ IF ~unlock
                             THEN Goes("auth", sel \o <<Ev("authenticate", iBlock, NoKey, TRUE)>>)
                             ELSE Goes("rs_read", sel)
       ELSE IF ~bFailure
         THEN GoesKeep("rs_read", <<>>) /\ UNCHANGED uiReadBlocks
         ELSE RsTail(bFailure, <<>>)
  /\ UNCHANGED <<cfgVars, layVars, hRead, snapVars, hOpFailed, mtKeys, mtDump, tagMem, devVars, i, iSector,
                 histVars, uiWriteBlocks, dumpFile, exitCode>>

\* nfc_initiator_mifare_cmd(MC_READ, iBlock) and what follows it in the iteration
RsRead ==
  /\ pc = "rs_read"
  /\ \E f \in FaultChoices :
       LET data == tagMem[iBlock] IN
         /\ mtDump' = IF f THEN mtDump ELSE StoreRead(data)
         /\ RsTail(bFailure \/ f, <<Ev("MC_READ", iBlock, NoKey, ~f)>>)
  /\ UNCHANGED <<cfgVars, layVars, hRead, snapVars, hOpFailed, mtKeys, tagMem, devVars, i, iSector,
                 histVars, uiWriteBlocks, dumpFile, exitCode>>

\* ---------------------------------------------------------- write_sector
WsTail(bF, evs) ==
  /\ uiWriteBlocks' = IF bF THEN uiWriteBlocks ELSE uiWriteBlocks + 1
  /\ IF ~bTolerateFailures /\ bF
       THEN Returns(FALSE, evs)
       ELSE IF iBlock + 1 <= TrailerBlockOf(iSector)
         THEN /\ Goes("ws_iter", evs)
              /\ iBlock' = iBlock + 1
              /\ bFailure' = bF
              /\ UNCHANGED key_index
         ELSE Returns(TRUE, evs)

\* the trailer as write_sector assembles it from the CardImage
TrailerData(blk) == abtKeyA(blk) \o abtAccessBits(blk) \o abtKeyB(blk)

\* abtData[0] ^ abtData[1] ^ abtData[2] ^ abtData[3] ^ abtData[4]
Bcc(data) == Xor(Xor(Xor(Xor(data[1], data[2]), data[3]), data[4]), data[5])

\* mutant of SkipBlockZero: block 0 is written like any data block
SkipBlockZeroNever(uiBlock) == FALSE

\* block 0 is left alone: the `continue` of write_sector
SkipBlockZero(uiBlock) == uiBlock = 0 /\ ~unlock /\ ~magic2

\* the image of block 0 must not be written
BadBcc(uiBlock, data) == uiBlock = 0 /\ Bcc(data) # 0 /\ ~magic2

\* the head of one iteration, up to the call of authenticate
WsIter ==
  /\ pc = "ws_iter"
  /\ IF is_first_block(iBlock)
       THEN \E f \in (IF bFailure THEN FaultChoices ELSE {FALSE}) :
              LET sel == IF bFailure THEN <<Ev("select", 0, NoKey, ~f)>> ELSE <<>> IN
                /\ UNCHANGED uiWriteBlocks
                /\ IF f THEN Returns(FALSE, sel)
                   ELSE /\ bFailure' = FALSE
                        /\ UNCHANGED <<iBlock, key_index>>
                        /\ IF ~unlock
                             THEN Goes("auth", sel \o <<Ev("authenticate", iBlock, NoKey, TRUE)>>)
                             ELSE Goes("ws_block", sel)
       ELSE GoesKeep("ws_block", <<>>) /\ UNCHANGED uiWriteBlocks
  /\ UNCHANGED <<cfgVars, layVars, hRead, snapVars, hOpFailed, mtKeys, mtDump, tagMem, devVars, i, iSector,
                 histVars, uiReadBlocks, dumpFile, exitCode>>

\* the rest of the iteration: the trailer or data block is written, or skipped
WsBlock ==
  /\ pc = "ws_block"
  /\ IF is_trailer_block(iBlock)
       THEN LET data == TrailerData(mtDump[iBlock]) IN
              \E f \in FaultChoices :
                /\ tagMem' = IF f THEN tagMem ELSE [tagMem EXCEPT ![iBlock] = data]
                /\ hWrote' = TRUE
                /\ UNCHANGED hBccAbort
                /\ WsTail(bFailure \/ f, <<Ev("MC_WRITE", iBlock, data, ~f)>>)
       ELSE IF SkipBlockZero(iBlock)
         THEN /\ Goes("ws_iter", <<>>)
              /\ iBlock' = iBlock + 1
              /\ UNCHANGED <<bFailure, key_index, uiWriteBlocks, tagMem,
                             hWrote, hBccAbort>>
         ELSE IF ~bFailure
           THEN LET data == mtDump[iBlock] IN
                  /\ IF BadBcc(iBlock, data)
                       THEN /\ Returns(FALSE, <<>>)
                            /\ hBccAbort' = TRUE
                            /\ UNCHANGED <<tagMem, uiWriteBlocks, hWrote>>
                       ELSE \E f \in FaultChoices :
                              /\ tagMem' = IF f THEN tagMem
                                           ELSE [tagMem EXCEPT ![iBlock] = data]
                              /\ hWrote' = TRUE
                              /\ UNCHANGED hBccAbort
                              /\ WsTail(f, <<Ev("MC_WRITE", iBlock, data, ~f)>>)
           ELSE WsTail(bFailure, <<>>) /\ UNCHANGED <<tagMem, hWrote, hBccAbort>>
  /\ UNCHANGED <<cfgVars, layVars, hRead, snapVars, hOpFailed, mtKeys, mtDump, devVars, i, iSector,
                 hPending, uiReadBlocks, dumpFile, exitCode>>

\* ------------------------------------------------------------ the program
Next ==
  \/ MainCall
  \/ MainAfterRead
  \/ MainAfterWrite
  \/ MainExit
  \/ UnlockEntry
  \/ UnlockCrcOff
  \/ UnlockFramingOff
  \/ UnlockHalt
  \/ UnlockBits
  \/ UnlockBytes
  \/ UnlockCrcOn
  \/ UnlockFramingOn
  \/ AuthKeyFile
  \/ AuthGuess
  \/ AuthReselect
  \/ RsIter
  \/ RsRead
  \/ WsIter
  \/ WsBlock

\* the program as main runs it
Spec == Init /\ [][Next]_vars

\* the sector operations with failure tolerance either way
SpecCall == InitCall /\ [][Next]_vars

\* ------------------------------------------------- main before the loop
\* -s accepts the ids 0..MaxSectorId
MaxSectorId == 15

\* uiBlocks as main sets it from ATQA and SAK
GuessSize(atqa4k, sakMini) == IF atqa4k THEN 255 ELSE IF sakMini THEN 19 ELSE 63

\* what the tag answers to RATS: nothing, the ATS of a MIFARE Plus 2K, the ATS
\* of a magic2 card, or another ATS
RatsChoices == {"none", "plus2k", "magic2", "other"}

\* uiBlocks after the RATS test
SizeAfterRats(size, atqa4k, rats) ==
  IF rats = "plus2k" /\ ~atqa4k THEN 127 ELSE size

CardSizes == {19, 63, 127, 255}

\* the sector ids of a run of the whole program: the first sector, the last
\* sector of a card that has four-block sectors only, and the sector after it
RunSectorIds ==
  {0} \cup {s \in 0..MaxSectorId :
              \E n \in CardSizes : TrailerBlockOf(s) = n \/ FirstDataBlockOf(s) = n + 1}

\* the blocks of the sectors of a set
BlocksOf(S) == UNION {FirstDataBlockOf(s)..TrailerBlockOf(s) : s \in S}

\* key files: one that cannot be opened, an empty one, one that holds the four
\* UID bytes only, one that holds 256 blocks
KeyFileLens == {-1, 0, 4, 256 * 16}

\* the state when main is entered: the command line is the input, the static
\* mtKeys and mtDump are zero, the reader has its defaults
InitRun ==
  /\ atAction \in {"ACTION_READ", "ACTION_WRITE"}
  /\ unlock \in BOOLEAN
  /\ bUseKeyA \in BOOLEAN
  /\ bUseKeyFile \in BOOLEAN
  /\ bTolerateFailures = TRUE
  /\ magic2 = FALSE
  /\ ilSector \in 1..MaxSel
  /\ lSector \in {{s} : s \in RunSectorIds}
  /\ uiBlocks = 0
  /\ keyFileLen \in (IF bUseKeyFile THEN KeyFileLens ELSE {0})
  /\ iSector = 0
  /\ mtKeys = [b \in BlocksOf(lSector) |-> Zero16]
  /\ mtDump = [b \in BlocksOf(lSector) |-> Zero16]
  /\ \E tk \in TagKeyChoices(unlock) :
       tagMem = [b \in BlocksOf(lSector) |-> TagBlock(b, tk)]
  /\ handleCrc = TRUE
  /\ easyFraming = TRUE
  /\ log = <<>>
  /\ hWrote = FALSE
  /\ hPending = FALSE
  /\ hBccAbort = FALSE
  /\ hDump = mtDump
  /\ hKeys = mtKeys
  /\ hOpFailed = FALSE
  /\ hRead = {}
  /\ layBlock = 0
  /\ layOut = NoLayout
  /\ pc = "start"
  /\ i = 1
  /\ iBlock = 0
  /\ bFailure = FALSE
  /\ uiReadBlocks = 0
  /\ uiWriteBlocks = 0
  /\ key_index = 0
  /\ ret = FALSE
  /\ dumpFile = "none"
  /\ exitCode = -1

\* exit(EXIT_FAILURE) after issuing evs
Exits(evs) ==
  /\ log' = log \o evs
  /\ pc' = "exit"
  /\ exitCode' = 1

\* main goes on at nextpc after issuing evs
Starts(nextpc, evs) ==
  /\ log' = log \o evs
  /\ pc' = nextpc
  /\ UNCHANGED exitCode

runFixed == <<atAction, unlock, bUseKeyA, bUseKeyFile, bTolerateFailures, ilSector,
              lSector, keyFileLen, tagMem, histVars, hOpFailed, hRead, layVars,
              i, iSector, locVars, ret, dumpFile>>

\* mutant of KeyFileProbe: the UID bytes are not asked for
KeyFileProbeOpenOnly ==
  IF keyFileLen < 0 THEN <<Ev("fopen", 0, NoKey, FALSE)>>
  ELSE <<Ev("fopen", 0, NoKey, TRUE)>>

\* fopen(keyFile) and fread of the 4 UID bytes
KeyFileProbe ==
  IF keyFileLen < 0 THEN <<Ev("fopen", 0, NoKey, FALSE)>>
  ELSE <<Ev("fopen", 0, NoKey, TRUE), Ev("fread", 4, NoKey, keyFileLen >= 4)>>

\* the key file is opened and its UID read, before the reader is opened
StartKeyProbe ==
  /\ pc = "start"
  /\ IF bUseKeyFile
       THEN LET evs == KeyFileProbe IN
              IF evs[Len(evs)].ok THEN Starts("st_open", evs) ELSE Exits(evs)
       ELSE Starts("st_open", <<>>)
  /\ UNCHANGED <<runFixed, magic2, uiBlocks, mtKeys, mtDump, devVars, snapVars>>

\* nfc_init, nfc_open, nfc_initiator_init, NP_INFINITE_SELECT: the reader
StartOpen ==
  /\ pc = "st_open"
  /\ \E f \in FaultChoices :
       IF f THEN Exits(<<Ev("nfc_open", 0, NoKey, FALSE)>>)
            ELSE Starts("st_select", <<Ev("nfc_open", 0, NoKey, TRUE)>>)
  /\ UNCHANGED <<runFixed, magic2, uiBlocks, mtKeys, mtDump, devVars, snapVars>>

\* the tag is selected and its size guessed from ATQA and SAK
StartSelect ==
  /\ pc = "st_select"
  /\ \E f \in FaultChoices :
       IF f
         THEN /\ Exits(<<Ev("select", 0, NoKey, FALSE)>>)
              /\ UNCHANGED uiBlocks
         ELSE /\ Starts("st_rats", <<Ev("select", 0, NoKey, TRUE)>>)
              /\ \E atqa4k \in BOOLEAN, sakMini \in BOOLEAN :
                   uiBlocks' = GuessSize(atqa4k, sakMini)
  /\ UNCHANGED <<runFixed, magic2, mtKeys, mtDump, devVars, snapVars>>

\* get_rats and the test of its result: easy framing off, RATS, the field
\* switched off and on when the tag answered, the tag selected again
StartRats ==
  /\ pc = "st_rats"
  /\ \E f \in FaultChoices :
       IF f
         THEN /\ Starts("st_keys", <<Ev("NP_EASY_FRAMING", 0, NoKey, FALSE)>>)
              /\ UNCHANGED <<easyFraming, uiBlocks, magic2>>
         ELSE \E rats \in RatsChoices, g \in FaultChoices :
                LET evs == <<Ev("NP_EASY_FRAMING", 0, NoKey, TRUE),
                             Ev("RATS", 224, <<2>>, rats # "none")>>
                           \o (IF rats # "none"
                                 THEN <<Ev("NP_ACTIVATE_FIELD", 0, NoKey, TRUE),
                                        Ev("NP_ACTIVATE_FIELD", 1, NoKey, TRUE)>>
                                 ELSE <<>>)
                           \o <<Ev("select", 0, NoKey, ~g)>>
                IN /\ easyFraming' = FALSE
                   /\ IF g
                        THEN Exits(evs) /\ UNCHANGED <<uiBlocks, magic2>>
                        ELSE /\ Starts("st_keys", evs)
                             /\ uiBlocks' = SizeAfterRats(uiBlocks, uiBlocks = 255, rats)
                             /\ magic2' = (rats = "magic2")
  /\ UNCHANGED <<runFixed, mtKeys, mtDump, handleCrc, snapVars>>

\* the key file is opened again and (uiBlocks + 1) * 16 bytes are read into mtKeys
StartKeyLoad ==
  /\ pc = "st_keys"
  /\ IF bUseKeyFile
       THEN LET n == (uiBlocks + 1) * 16
                evs == <<Ev("fopen", 0, NoKey, TRUE), Ev("fread", n, NoKey, keyFileLen >= n)>>
            IN IF keyFileLen >= n
                 THEN /\ Starts("st_dump", evs)
                      /\ \E fk \in FileKeyChoices(unlock) :
                           mtKeys' = [b \in DOMAIN mtKeys |->
                                        IF b <= uiBlocks THEN KeyFileBlock(b, fk) ELSE Zero16]
                 ELSE Exits(evs) /\ UNCHANGED mtKeys
       ELSE Starts("st_dump", <<>>) /\ UNCHANGED mtKeys
  /\ UNCHANGED <<runFixed, magic2, uiBlocks, mtDump, devVars, hDump, hKeys>>

\* mtDump is zeroed (a read without -p) or loaded from the dump file, and the
\* sector loop is entered
StartDumpLoad ==
  /\ pc = "st_dump"
  /\ \E bcc \in DumpChoices(atAction), ioOk \in BOOLEAN :
       IF bcc = 0
         THEN Starts("main", <<>>) /\ UNCHANGED mtDump
         ELSE IF ioOk
           THEN /\ Starts("main", <<Ev("fread_dump", (uiBlocks + 1) * 16, NoKey, TRUE)>>)
                /\ mtDump' = [b \in DOMAIN mtDump |->
                                IF b <= uiBlocks THEN DumpFileBlock(b, bcc) ELSE Zero16]
           ELSE /\ Exits(<<Ev("fread_dump", (uiBlocks + 1) * 16, NoKey, FALSE)>>)
                /\ UNCHANGED mtDump
  /\ hDump' = mtDump'
  /\ hKeys' = mtKeys
  /\ UNCHANGED <<runFixed, magic2, uiBlocks, mtKeys, devVars>>

NextStart ==
  \/ StartKeyProbe
  \/ StartOpen
  \/ StartSelect
  \/ StartRats
  \/ StartKeyLoad
  \/ StartDumpLoad

\* the whole program
NextRun == NextStart \/ Next

SpecRun == InitRun /\ [][NextRun]_vars

\* ----------------------------------------------------------- SectorLayout
\* the three functions on their own: no device, no tag, no file
InitLayout ==
  /\ layBlock \in 0..MaxBlock
  /\ layOut = NoLayout
  /\ pc = "layout"
  /\ atAction = "ACTION_READ"
  /\ unlock = FALSE
  /\ bUseKeyA = TRUE
  /\ bUseKeyFile = FALSE
  /\ bTolerateFailures = FALSE
  /\ magic2 = FALSE
  /\ ilSector = 0
  /\ lSector = {}
  /\ uiBlocks = 0
  /\ keyFileLen = 0
  /\ iSector = 0
  /\ mtKeys = <<>>
  /\ mtDump = <<>>
  /\ tagMem = <<>>
  /\ handleCrc = TRUE
  /\ easyFraming = FALSE
  /\ log = <<>>
  /\ hWrote = FALSE
  /\ hPending = FALSE
  /\ hBccAbort = FALSE
  /\ hDump = <<>>
  /\ hKeys = <<>>
  /\ hOpFailed = FALSE
  /\ hRead = {}
  /\ i = 1
  /\ iBlock = 0
  /\ bFailure = FALSE
  /\ uiReadBlocks = 0
  /\ uiWriteBlocks = 0
  /\ key_index = 0
  /\ ret = FALSE
  /\ dumpFile = "none"
  /\ exitCode = -1

\* is_first_block, is_trailer_block and get_trailer_block applied to layBlock
Layout ==
  /\ pc = "layout"
  /\ layOut' = [first |-> is_first_block(layBlock),
                trailer |-> is_trailer_block(layBlock),
                trailer_block |-> get_trailer_block(layBlock)]
  /\ pc' = "layout_done"
  /\ UNCHANGED <<cfgVars, layBlock, mtKeys, mtDump, tagMem, devVars, log,
                 histVars, snapVars, hOpFailed, hRead, i, iSector, locVars,
                 ret, dumpFile, exitCode>>

NextLayout == Layout

SpecLayout == InitLayout /\ [][NextLayout]_vars

\* ------------------------------------------------------------ trace views
IsAuth(e) == e.op \in {"MC_AUTH_A", "MC_AUTH_B"}
IsBlockCmd(e) == e.op \in {"MC_READ", "MC_WRITE"}
IsUnlockStep(e) ==
  e.op \in {"NP_HANDLE_CRC", "NP_EASY_FRAMING", "transmit_bits", "transmit_bytes"}
IsHalt(e) == e.op = "transmit_bytes" /\ e.arg = 80

Idx(P(_)) == {j \in 1..Len(log) : P(log[j])}
AuthIdx == Idx(IsAuth)
SelectIdx == {j \in 1..Len(log) : log[j].op = "select"}
LastEv == log[Len(log)]
ReturnedFalse == pc = "main_ret" /\ ~ret /\ LastEv = Ev("return", iSector, NoKey, FALSE)

\* authenticate has returned true: the caller is past its test and has not returned
AuthReturnedTrue == pc \in {"rs_read", "ws_block", "ws_iter"}

\* the key of the type in use held by a 16-byte trailer
KeyInUse(blk) == IF bUseKeyA THEN SubSeq(blk, 1, 6) ELSE SubSeq(blk, 11, 16)

\* ------------------------------------------------------------------ C1
\* C1: in guessing mode, when the tag accepts candidate k after rejecting
\* candidates 1..k-1, authenticate has issued exactly k authentication commands,
\* candidate j as the j-th, and exactly k-1 re-selects, one after each rejected
\* candidate and none after the accepted one; it returns success and candidate k
\* is in the KeyStore entry of the block, under the key type in use.
C1_GuessAccepted ==
  (~bUseKeyFile /\ log # <<>> /\ IsAuth(LastEv) /\ LastEv.ok) =>
    LET k == Cardinality(AuthIdx)
        blk == LastEv.arg
    IN /\ k \in 1..num_keys
       /\ Len(log) = 2 * k + 1
       /\ log[2] = Ev("authenticate", blk, NoKey, TRUE)
       /\ \A j \in 1..k : log[2 * j + 1] = Ev(mc, blk, keys[j], j = k)
       /\ \A j \in 1..(k - 1) : log[2 * j + 2].op = "select"
       /\ Cardinality(SelectIdx) = k - 1
       /\ KeyInUse(mtKeys[blk]) = keys[k]
       /\ AuthReturnedTrue

\* the last dictionary key is accepted after num_keys - 1 rejections
C1_Witness ==
  /\ ~bUseKeyFile
  /\ log # <<>>
  /\ IsAuth(LastEv)
  /\ LastEv.ok
  /\ Cardinality(AuthIdx) = num_keys
  /\ Cardinality(SelectIdx) = num_keys - 1

\* ------------------------------------------------------------------ C2
\* C2: in key-file mode a sector operation issues at most one authentication
\* command, with the key of the selected type that the key file holds at the
\* trailer of the block's sector, and no re-select; authenticate succeeds iff
\* that attempt is accepted, and on a rejection the sector operation returns
\* failure with no read or write issued.
C2_KeyFileOneAttempt ==
  bUseKeyFile =>
    /\ Cardinality(AuthIdx) <= 1
    /\ SelectIdx = {}
    /\ \A j \in AuthIdx :
         /\ log[j].op = mc
         /\ log[j].par = KeyInUse(mtKeys[4 * (log[j].arg \div 4) + 3])
         /\ log[j - 1] = Ev("authenticate", log[j].arg, NoKey, TRUE)
         /\ ~log[j].ok =>
              /\ ReturnedFalse
              /\ Len(log) = j + 1
              /\ Idx(IsBlockCmd) = {}
         /\ (log[j].ok /\ Len(log) = j) => AuthReturnedTrue

\* the key-file key is rejected for a sector whose first block is not its trailer
C2_Witness ==
  /\ bUseKeyFile
  /\ atAction = "ACTION_WRITE"
  /\ ReturnedFalse
  /\ \E j \in AuthIdx : ~log[j].ok

\* ------------------------------------------------------------------ C3
\* C3: when write_sector refuses a block 0 image (bad BCC, card not magic2), no
\* write command is issued to the tag in the whole run, before or after.
C3_BadBccNoWriteInRun == hBccAbort => ~hWrote

\* ------------------------------------------------------------------ C4
\* C4: without -u and on a card not flagged magic2, no write command is ever
\* addressed to block 0.
C4_NoWriteBlockZero ==
  (~unlock /\ ~magic2) =>
    \A j \in 1..Len(log) : ~(log[j].op = "MC_WRITE" /\ log[j].arg = 0)

\* sector 0 is written without -u on a plain card: block 1 is written, block 0 is not
C4_Witness ==
  /\ ~unlock
  /\ ~magic2
  /\ log # <<>>
  /\ log[1] = Ev("write_sector", 0, NoKey, TRUE)
  /\ \E j \in 1..Len(log) : log[j].op = "MC_WRITE" /\ log[j].arg = 1 /\ log[j].ok

\* ------------------------------------------------------------------ C5
\* C5: a read without -u of sector s in which every command succeeds is exactly:
\* authenticate called once at block 4s+3, one authentication command, then the
\* reads of blocks 4s+3, 4s+2, 4s+1, 4s in that order.
C5_ReadOrder ==
  (/\ atAction = "ACTION_READ"
   /\ ~unlock
   /\ pc = "main_ret"
   /\ \A j \in 1..Len(log) : log[j].ok) =>
    LET s == log[1].arg IN
      /\ Len(log) = 8
      /\ log[1].op = "read_sector"
      /\ log[2] = Ev("authenticate", 4 * s + 3, NoKey, TRUE)
      /\ IsAuth(log[3])
      /\ log[3].arg = 4 * s + 3
      /\ \A j \in 0..3 : log[4 + j] = Ev("MC_READ", 4 * s + 3 - j, NoKey, TRUE)
      /\ log[8] = Ev("return", s, NoKey, TRUE)

C5_Witness ==
  /\ atAction = "ACTION_READ"
  /\ ~unlock
  /\ pc = "main_ret"
  /\ \A j \in 1..Len(log) : log[j].ok
  /\ Len(log) = 8
  /\ log[1].arg = 1
  /\ log[7] = Ev("MC_READ", 4, NoKey, TRUE)

\* ------------------------------------------------------------------ C6
\* C6: with failure tolerance disabled, a failed read is the last command of
\* read_sector, which returns failure: no lower block is read.
C6_ReadFailureStops ==
  (atAction = "ACTION_READ" /\ ~bTolerateFailures) =>
    \A j \in 1..Len(log) :
      (log[j].op = "MC_READ" /\ ~log[j].ok) =>
        /\ Len(log) = j + 1
        /\ ReturnedFalse

\* block 2 of sector 0 fails after block 3 was read
C6_Witness ==
  /\ atAction = "ACTION_READ"
  /\ ~bTolerateFailures
  /\ ReturnedFalse
  /\ \E j \in 2..Len(log) :
       /\ log[j] = Ev("MC_READ", 2, NoKey, FALSE)
       /\ log[j - 1] = Ev("MC_READ", 3, NoKey, TRUE)

\* ------------------------------------------------------------------ C7
\* C7: when a read or write has failed in an earlier sector operation and no
\* re-select has followed, the first authentication or block command of the
\* next sector operation is preceded by a successful re-select.
C7_ReselectBeforeNextGroup ==
  hPending =>
    \A j \in 1..Len(log) :
      (IsAuth(log[j]) \/ IsBlockCmd(log[j])) =>
        \E k \in 1..(j - 1) : log[k].op = "select" /\ log[k].ok

\* ------------------------------------------------------------------ C8
\* C8 as claimed: a failure of any step of unlock_card, the HALT transceive
\* included, ends unlock_card and the sector operation with failure at that step.
C8_AnyStepFailureStops ==
  \A j \in 1..Len(log) :
    (IsUnlockStep(log[j]) /\ ~log[j].ok) =>
      /\ \A k \in (j + 1)..Len(log) : log[k] = Ev("return", iSector, NoKey, FALSE)
      /\ Len(log) > j => ReturnedFalse

\* C8 as amended: a failure of any step other than the HALT transceive ends
\* unlock_card and the sector operation with failure at that step; a failure of
\* the HALT transceive is ignored and the 7-bit unlock command is the next step.
C8_CheckedStepFailureStops ==
  \A j \in 1..Len(log) :
    (IsUnlockStep(log[j]) /\ ~log[j].ok) =>
      IF IsHalt(log[j])
        THEN /\ Len(log) = j => pc = "ul_unlock1"
             /\ Len(log) > j => (log[j + 1].op = "transmit_bits" /\ log[j + 1].arg = 64)
        ELSE /\ Len(log) = j + 1
             /\ ReturnedFalse

\* the HALT transceive fails, the sequence goes on, and the 1-byte unlock fails
C8_Witness ==
  /\ ReturnedFalse
  /\ Len(log) = 7
  /\ log[4] = Ev("transmit_bytes", 80, <<4>>, FALSE)
  /\ log[5] = Ev("transmit_bits", 64, <<7>>, TRUE)
  /\ log[6] = Ev("transmit_bytes", 67, <<1>>, FALSE)

\* ------------------------------------------------------------------ C9
\* C9: with -u on a card flagged magic2 the sector operation issues no call to
\* the reader or the tag and returns failure.
C9_Magic2UnlockNoCommand ==
  (magic2 /\ unlock) =>
    /\ \A j \in 1..Len(log) : log[j].op \in {"read_sector", "write_sector", "return"}
    /\ pc = "main_ret" => ReturnedFalse

C9_Witness ==
  /\ magic2
  /\ unlock
  /\ ReturnedFalse
  /\ Len(log) = 2

\* ------------------------------------------------------------------ C10
\* the seven steps of unlock_card, without their outcomes
UnlockSequence ==
  << <<"NP_HANDLE_CRC", 0, NoKey>>,
     <<"NP_EASY_FRAMING", 0, NoKey>>,
     <<"transmit_bytes", 80, <<4>> >>,
     <<"transmit_bits", 64, <<7>> >>,
     <<"transmit_bytes", 67, <<1>> >>,
     <<"NP_HANDLE_CRC", 1, NoKey>>,
     <<"NP_EASY_FRAMING", 1, NoKey>> >>

UnlockSucceeded ==
  \E j \in 1..Len(log) : log[j] = Ev("NP_EASY_FRAMING", 1, NoKey, TRUE)

\* C10: when unlock_card has succeeded on a card not flagged magic2, the reader
\* has seen exactly CRC off, easy framing off, HALT, the 7-bit unlock command, the
\* 1-byte unlock command, CRC on, easy framing on, in this order, and CRC handling
\* and easy framing are both enabled.
C10_UnlockSequence ==
  UnlockSucceeded =>
    /\ ~magic2
    /\ Idx(IsUnlockStep) = 2..8
    /\ \A j \in 1..7 :
         <<log[j + 1].op, log[j + 1].arg, log[j + 1].par>> = UnlockSequence[j]
    /\ \A j \in 1..7 : j # 3 => log[j + 1].ok
    /\ handleCrc
    /\ easyFraming

\* unlock_card has just succeeded although the HALT transceive failed
C10_Witness ==
  /\ UnlockSucceeded
  /\ Len(log) = 8
  /\ ~log[4].ok
  /\ pc = AfterUnlock

\* ------------------------------------------------------------------ C11
\* the sector operation was called with -u and returned without unlock_card
\* having succeeded: unlock_card returned false
UnlockFailed == unlock /\ pc = "main_ret" /\ ~UnlockSucceeded

\* C11: when read_sector or write_sector is called with -u and unlock_card
\* fails, the sector operation returns failure, has issued no authentication,
\* read or write command, and the CardImage and the KeyStore are as they were
\* when it was called.
C11_UnlockFailureNoTagCommand ==
  UnlockFailed =>
    /\ ReturnedFalse
    /\ Idx(IsAuth) = {}
    /\ Idx(IsBlockCmd) = {}
    /\ mtDump = hDump
    /\ mtKeys = hKeys

\* the second sector operation of a run fails at the step that switches CRC
\* handling back on
C11_Witness ==
  /\ UnlockFailed
  /\ ~magic2
  /\ i = 2
  /\ Len(log) = 8
  /\ log[7] = Ev("NP_HANDLE_CRC", 1, NoKey, FALSE)

\* ------------------------------------------------------------------ C12
\* C12: the exit code is 0 only if every sector operation of the run returned
\* success; a run in which a sector operation failed ends with a non-zero code.
C12_ExitZeroOnlyIfAllSucceeded == exitCode = 0 => ~hOpFailed

\* ------------------------------------------------------------------ C13
\* the write commands of the trace that the tag accepted
AcceptedWrites == {j \in 1..Len(log) : log[j].op = "MC_WRITE" /\ log[j].ok}

\* C13: when write_sector has run to completion, the count it reports
\* (uiWriteBlocks) is the number of write commands of the sector that the tag
\* accepted, whatever writes were accepted and rejected.
C13_WriteCountIsAcceptedWrites ==
  (atAction = "ACTION_WRITE" /\ pc = "main_ret" /\ ret) =>
    uiWriteBlocks = Cardinality(AcceptedWrites)

\* ------------------------------------------------------------------ C14
\* C14: for every block index b of 0..255, is_trailer_block(b) is
\* (b+1) mod 4 = 0 below 128 and (b+1) mod 16 = 0 from 128 on; is_first_block(b)
\* is b mod 4 = 0 below 128 and b mod 16 = 0 from 128 on; get_trailer_block(b) is
\* the smallest t >= b that is a trailer block, and no first block lies strictly
\* between b and t.
C14_SectorLayout ==
  pc = "layout_done" =>
    LET b == layBlock
        t == layOut.trailer_block
    IN /\ layOut.trailer = IF b < 128 THEN (b + 1) % 4 = 0 ELSE (b + 1) % 16 = 0
       /\ layOut.first = IF b < 128 THEN b % 4 = 0 ELSE b % 16 = 0
       /\ t >= b
       /\ is_trailer_block(t)
       /\ \A u \in b..(t - 1) : ~is_trailer_block(u)
       /\ \A u \in (b + 1)..(t - 1) : ~is_first_block(u)

\* a block in the middle of the first 16-block sector
C14_Witness ==
  /\ pc = "layout_done"
  /\ layBlock = 130
  /\ layOut = [first |-> FALSE, trailer |-> FALSE, trailer_block |-> 143]

\* ------------------------------------------------------------------ C15
\* the blocks of sector s
SectorBlocks(s) == FirstDataBlockOf(s)..TrailerBlockOf(s)

\* read_sector has returned from reading a sector again: a call that has
\* returned before had obtained every block that this one obtained
SecondReadOfSector ==
  /\ atAction = "ACTION_READ"
  /\ pc = "main_ret"
  /\ i > 1
  /\ ReadBlocks(log) \subseteq hRead

\* C15: reading a sector a second time, from a tag that holds the same blocks
\* and accepts the same keys, leaves the CardImage as the first read left it,
\* with a key file and without.
C15_SecondReadSameImage == SecondReadOfSector => mtDump = hDump

\* guessing mode: sector 1 is read twice in succession and both reads obtain
\* all four blocks
C15_Witness ==
  /\ SecondReadOfSector
  /\ ~bUseKeyFile
  /\ ~unlock
  /\ i = 2
  /\ iSector = 1
  /\ hRead = SectorBlocks(1)
  /\ ReadBlocks(log) = SectorBlocks(1)

\* ------------------------------------------------------------------ C16
\* a call that reaches the tag
IsTagIo(e) ==
  e.op \in {"select", "RATS", "MC_AUTH_A", "MC_AUTH_B", "MC_READ", "MC_WRITE"}

IsKeyFileError(e) == e.op \in {"fopen", "fread"} /\ ~e.ok

\* C16 as claimed: when the run ends on a key file that cannot be opened or is
\* too short, no tag I/O (selection, RATS, authentication, read, write) has
\* been issued.
C16_KeyFileErrorBeforeTagIo ==
  (pc = "exit" /\ log # <<>> /\ IsKeyFileError(LastEv)) =>
    \A j \in 1..Len(log) : ~IsTagIo(log[j])

\* main is past the second load of the key file
PastKeyLoad == pc \notin {"start", "st_open", "st_select", "st_rats", "st_keys"}

\* C16 as amended: a key file that cannot be opened or holds fewer than 4 bytes
\* ends the run with a failure code before any tag I/O; a key file that holds
\* at least 4 bytes but fewer than (uiBlocks+1)*16 ends the run with a failure
\* code after the tag has been selected (and asked for its ATS), before the
\* sector loop: no authentication, read or write is ever issued.
C16_KeyFileErrorStopsRun ==
  bUseKeyFile =>
    /\ keyFileLen < 4 =>
         /\ pc \in {"start", "exit"}
         /\ pc = "exit" => exitCode = 1
         /\ \A j \in 1..Len(log) : ~IsTagIo(log[j])
    /\ (PastKeyLoad /\ keyFileLen < (uiBlocks + 1) * 16) =>
         /\ pc = "exit"
         /\ exitCode = 1
         /\ i = 1
         /\ ~hWrote
         /\ \A j \in 1..Len(log) : ~IsAuth(log[j]) /\ ~IsBlockCmd(log[j])

\* a key file of 4 bytes: the tag was selected, answered RATS and was selected
\* again before the short read ended the run
C16_Witness ==
  /\ bUseKeyFile
  /\ keyFileLen = 4
  /\ pc = "exit"
  /\ exitCode = 1
  /\ IsKeyFileError(LastEv)
  /\ LastEv.arg = (uiBlocks + 1) * 16
  /\ \E j \in 1..Len(log) : log[j].op = "RATS" /\ log[j].ok
  /\ Cardinality(SelectIdx) = 2

\* ------------------------------------------------------------------ C18
\* C18: for every card size main detects and every sector id -s accepts, each
\* block index handed to authenticate, to an authentication command, to a read
\* or to a write is one of 0..uiBlocks.
C18_BlockIndexWithinCard ==
  \A j \in 1..Len(log) :
    (IsAuth(log[j]) \/ IsBlockCmd(log[j]) \/ log[j].op = "authenticate") =>
      log[j].arg \in 0..uiBlocks

\* ------------------------------------------------------------------ C17
\* C17: when a dictionary key has just been accepted in guessing mode, in a
\* read or in a write, it is in the KeyStore at the trailer block 4s+3 of the
\* sector s being processed, under the key type in use, and every other
\* KeyStore block is as it was when the sector operation was called.
C17_GuessedKeyAtTrailer ==
  (~bUseKeyFile /\ log # <<>> /\ IsAuth(LastEv) /\ LastEv.ok) =>
    LET t == TrailerBlockOf(iSector) IN
      /\ KeyInUse(mtKeys[t]) = LastEv.par
      /\ \A b \in DOMAIN mtKeys \ {t} : mtKeys[b] = hKeys[b]

\* ------------------------------------------------------------------ C19
\* C19: without -u, every read or write command of a sector operation comes
\* after a successful authentication for the sector of its block, with no
\* re-select and no failed command between that authentication and it.
C19_AuthGuardsBlockCommands ==
  ~unlock =>
    \A j \in 1..Len(log) :
      IsBlockCmd(log[j]) =>
        \E k \in 1..(j - 1) :
          /\ IsAuth(log[k])
          /\ log[k].ok
          /\ get_trailer_block(log[k].arg) = get_trailer_block(log[j].arg)
          /\ \A m \in (k + 1)..(j - 1) : log[m].op # "select" /\ log[m].ok

\* ------------------------------------------------------------------ C20
\* the sector operation has returned and the tag accepted no key of it
AllRejected ==
  /\ pc = "main_ret"
  /\ AuthIdx # {}
  /\ \A j \in AuthIdx : ~log[j].ok

\* C20: in guessing mode a sector operation never issues more authentication
\* commands than the dictionary has keys; when the tag has rejected them all,
\* the commands were exactly the num_keys candidates, each once and in
\* dictionary order, the sector operation returned failure with no read or
\* write, and the KeyStore is as it was when it was called.
C20_DictionaryExhausted ==
  ~bUseKeyFile =>
    /\ Cardinality(AuthIdx) <= num_keys
    /\ AllRejected =>
         /\ Cardinality(AuthIdx) = num_keys
         /\ Len(log) = 2 * num_keys + 3
         /\ \A j \in 1..num_keys :
              log[2 * j + 1] = Ev(mc, log[2].arg, keys[j], FALSE)
         /\ ReturnedFalse
         /\ Idx(IsBlockCmd) = {}
         /\ mtKeys = hKeys

\* the second sector operation of a write run on a tag whose key is not in the
\* dictionary
C20_Witness ==
  /\ ~bUseKeyFile
  /\ AllRejected
  /\ atAction = "ACTION_WRITE"
  /\ i = 2
  /\ log[2 * num_keys + 1] = Ev(mc, FirstDataBlockOf(iSector), keys[num_keys], FALSE)

\* ------------------------------------------------------------------ C21
\* the write commands of the trace that the tag rejected
RejectedWrites == {j \in 1..Len(log) : log[j].op = "MC_WRITE" /\ ~log[j].ok}

\* C21: with failures tolerated, once the tag has rejected a write of a block
\* of the sector, write_sector issues no further write command to a block of
\* that sector, the trailer block included.
C21_NoWriteAfterRejectedWrite ==
  bTolerateFailures =>
    \A j \in RejectedWrites :
      \A k \in (j + 1)..Len(log) : log[k].op # "MC_WRITE"

\* ------------------------------------------------------------------ C22
\* the blocks of the CardImage that differ from what they were when the sector
\* operation in progress was called
ChangedBlocks == {b \in DOMAIN mtDump : mtDump[b] # hDump[b]}

\* C22: read_sector(s) changes the CardImage only at blocks of 4s..4s+3 whose
\* read command succeeded in that call; every other block, the blocks of the
\* sector whose read failed or was skipped included, is as it was when the
\* call was made. write_sector never changes the CardImage.
C22_CardImageFrame ==
  /\ atAction = "ACTION_READ" =>
       /\ ChangedBlocks \subseteq ReadBlocks(log)
       /\ ReadBlocks(log) \subseteq SectorBlocks(iSector)
  /\ atAction = "ACTION_WRITE" => ChangedBlocks = {}

\* the second read of a run, of sector 1 after sector 0: the trailer and block
\* 6 were read, the read of block 5 was rejected and block 4 was skipped;
\* blocks 4 and 5 hold neither what the tag holds nor anything new
C22_Witness ==
  /\ atAction = "ACTION_READ"
  /\ pc = "main_ret"
  /\ ret
  /\ i = 2
  /\ iSector = 1
  /\ hRead = SectorBlocks(0)
  /\ ReadBlocks(log) = {6, 7}
  /\ \E j \in 1..Len(log) : log[j] = Ev("MC_READ", 5, NoKey, FALSE)
  /\ ChangedBlocks = {6, 7}
  /\ mtDump[5] # tagMem[5]
  /\ mtDump[4] # tagMem[4]

\* ------------------------------------------------------------------ C23
\* read_sector, called without -u, has read the trailer of its sector
TrailerRead ==
  /\ atAction = "ACTION_READ"
  /\ ~unlock
  /\ \E j \in 1..Len(log) : log[j] = Ev("MC_READ", TrailerBlockOf(iSector), NoKey, TRUE)

\* the authentication commands of the trace that the tag accepted
AcceptedAuths == {j \in AuthIdx : log[j].ok}

\* C23: once read_sector, called without -u, has read the trailer of its
\* sector, and until it has returned, the key of the type in use that the
\* CardImage holds in that trailer block is the key of the one authentication
\* command the tag accepted in the call, for its sector, with a key file and
\* without.
C23_TrailerKeyIsAcceptedKey ==
  TrailerRead =>
    /\ Cardinality(AcceptedAuths) = 1
    /\ \A j \in AcceptedAuths :
         /\ get_trailer_block(log[j].arg) = TrailerBlockOf(iSector)
         /\ KeyInUse(mtDump[TrailerBlockOf(iSector)]) = log[j].par

\* guessing mode with key B: the last key of the dictionary was accepted for
\* sector 1 and read_sector has returned
C23_Witness ==
  /\ TrailerRead
  /\ ~bUseKeyFile
  /\ ~bUseKeyA
  /\ pc = "main_ret"
  /\ ret
  /\ iSector = 1
  /\ Cardinality(AuthIdx) = num_keys
  /\ abtKeyB(mtDump[7]) = keys[num_keys]
  /\ abtKeyB(hDump[7]) # keys[num_keys]
====
